---- MODULE Spec2Model ----
\* Model of paleohydraulics.py: two pure functions, calculate_mean_velocity
\* (scour-mark regression) and calculate_velocity_from_dunes, and the driver
\* under `if __name__ == "__main__"`.
\*
\* Arithmetic.  A Python float is modelled as an exact real of the form
\*     sgn * PRODUCT over p in Primes of p^(e[p] / ExpDen)
\* with sgn in {-1, 0, 1} and integer e[p].  Every operation the program
\* applies (product, quotient, power, math.sqrt, math.log10, 10 ** x) maps
\* this set into itself, so the model computes with no rounding at all.  The
\* primes are those of the driver's literals.  The value math.log10 returns,
\* a real r, is kept as the exponent vector of 10^r.  Rounding error, overflow
\* and underflow of IEEE doubles are outside the model.
\*
\* Exceptions.  An operation that raises yields [exc |-> <name>], which every
\* later operation of the same expression passes on unchanged.
EXTENDS Integers, Sequences, FiniteSets, TLC

VARIABLES name, pc, env, stdout, calls

vars == <<name, pc, env, stdout, calls>>

\* Largest decade 10^MaxExp an importing caller passes as an argument.
MaxExp == 1

-----------------------------------------------------------------------------
\* Exact arithmetic

Primes == {2, 3, 5, 41, 47, 67, 109}

PrimeSeq == <<2, 3, 5, 41, 47, 67, 109>>

\* Exponents are counted in units of 1/ExpDen: thirds (x ** (1/3)), halves
\* (math.sqrt) and thousandths (0.326, 0.46) of a whole exponent are integers.
ExpDen == 3 * 1000

ZeroVec == [p \in Primes |-> 0]

Real(s, e) == [sgn |-> s, cx |-> FALSE, e |-> e]

Zero == Real(0, ZeroVec)

Exc(n) == [exc |-> n]

IsErr(x) == "exc" \in DOMAIN x

Abs(n) == IF n < 0 THEN -n ELSE n

RECURSIVE Multiplicity(_, _)
Multiplicity(n, p) == IF n % p = 0 THEN 1 + Multiplicity(n \div p, p) ELSE 0

\* An int literal (or the int value of an int expression) as a number; n has
\* no prime factor outside Primes.
FromInt(n) ==
    IF n = 0 THEN Zero
    ELSE Real(IF n < 0 THEN -1 ELSE 1,
              [p \in Primes |-> ExpDen * Multiplicity(Abs(n), p)])

\* x * y
Mul(x, y) ==
    IF IsErr(x) THEN x
    ELSE IF IsErr(y) THEN y
    ELSE LET z == x.sgn * y.sgn
             c == x.cx \/ y.cx
         IN [sgn |-> IF c THEN Abs(z) ELSE z,
             cx  |-> c,
             e   |-> IF z = 0 THEN ZeroVec
                     ELSE [p \in Primes |-> x.e[p] + y.e[p]]]

\* x / y
Div(x, y) ==
    IF IsErr(x) THEN x
    ELSE IF IsErr(y) THEN y
    ELSE IF y.sgn = 0 THEN Exc("ZeroDivisionError")
    ELSE LET z == x.sgn * y.sgn
             c == x.cx \/ y.cx
         IN [sgn |-> IF c THEN Abs(z) ELSE z,
             cx  |-> c,
             e   |-> IF z = 0 THEN ZeroVec
                     ELSE [p \in Primes |-> x.e[p] - y.e[p]]]

\* A float literal written with decimals, n / d.
Dec(n, d) == Div(FromInt(n), FromInt(d))

\* x ** (n / d) for a float x and 0 < n/d < 1.  A negative base gives a
\* complex number (of which only the modulus is kept), zero gives 0.0.
Pow(x, n, d) ==
    IF IsErr(x) THEN x
    ELSE IF x.sgn = 0 THEN [x EXCEPT !.e = ZeroVec]
    ELSE [sgn |-> 1,
          cx  |-> x.cx \/ x.sgn < 0,
          e   |-> [p \in Primes |-> (x.e[p] * n) \div d]]

\* math.sqrt(x)
Sqrt(x) ==
    IF IsErr(x) THEN x
    ELSE IF x.cx THEN Exc("TypeError")
    ELSE IF x.sgn < 0 THEN Exc("ValueError")
    ELSE IF x.sgn = 0 THEN Zero
    ELSE Real(1, [p \in Primes |-> x.e[p] \div 2])

\* math.log10(x): the real r with 10^r = x, kept as the exponents of 10^r.
Log10(x) ==
    IF IsErr(x) THEN x
    ELSE IF x.cx THEN Exc("TypeError")
    ELSE IF x.sgn <= 0 THEN Exc("ValueError")
    ELSE [lg |-> x.e]

\* (n / d) * r for a logarithm r: 10^((n/d) r) = (10^r)^(n/d).
MulLog(n, d, r) ==
    IF IsErr(r) THEN r
    ELSE [lg |-> [p \in Primes |-> (r.lg[p] * n) \div d]]

\* (n / d) + r for a logarithm r: 10^(n/d + r) = 2^(n/d) * 5^(n/d) * 10^r.
AddLog(n, d, r) ==
    IF IsErr(r) THEN r
    ELSE [lg |-> [p \in Primes |->
                    r.lg[p] + (IF p \in {2, 5} THEN (ExpDen * n) \div d ELSE 0)]]

\* 10 ** r for a logarithm r.
Pow10(r) == IF IsErr(r) THEN r ELSE Real(1, r.lg)

Raise(x) == [kind |-> x.exc]

-----------------------------------------------------------------------------
\* The two functions

\* |x|
AbsNum(x) == IF IsErr(x) THEN x ELSE [x EXCEPT !.sgn = Abs(x.sgn)]

\* Variant: the exponents 2/3 and 1/3 of the obstacle's height and width swapped.
calculate_mean_velocity_swapped(d_s, d_w, D_50, sigma_g, g, h_o, w_o, nu) ==
    LET L_A    == Mul(Pow(h_o, 1, 3), Pow(w_o, 2, 3))
        log_Um == AddLog(46, 100,
                    MulLog(326, 1000,
                      Log10(Div(Mul(Mul(Mul(Mul(d_s, d_w), D_50), sigma_g), g),
                                Mul(L_A, nu)))))
        U_m    == Pow10(log_Um)
    IN  IF IsErr(L_A) THEN Raise(L_A)
        ELSE IF IsErr(log_Um) THEN Raise(log_Um)
        ELSE IF IsErr(U_m) THEN Raise(U_m)
        ELSE [kind |-> "ok", U_m |-> U_m]

\* Variant: the logarithm taken of the absolute value of its argument.
calculate_mean_velocity_abs(d_s, d_w, D_50, sigma_g, g, h_o, w_o, nu) ==
    LET L_A    == Mul(Pow(h_o, 2, 3), Pow(w_o, 1, 3))
        log_Um == AddLog(46, 100,
                    MulLog(326, 1000,
                      Log10(AbsNum(
                        Div(Mul(Mul(Mul(Mul(d_s, d_w), D_50), sigma_g), g),
                            Mul(L_A, nu))))))
        U_m    == Pow10(log_Um)
    IN  IF IsErr(L_A) THEN Raise(L_A)
        ELSE IF IsErr(log_Um) THEN Raise(log_Um)
        ELSE IF IsErr(U_m) THEN Raise(U_m)
        ELSE [kind |-> "ok", U_m |-> U_m]

calculate_mean_velocity(d_s, d_w, D_50, sigma_g, g, h_o, w_o, nu) ==
    LET L_A    == Mul(Pow(h_o, 2, 3), Pow(w_o, 1, 3))
        log_Um == AddLog(46, 100,
                    MulLog(326, 1000,
                      Log10(Div(Mul(Mul(Mul(Mul(d_s, d_w), D_50), sigma_g), g),
                                Mul(L_A, nu)))))
        U_m    == Pow10(log_Um)
    IN  IF IsErr(L_A) THEN Raise(L_A)
        ELSE IF IsErr(log_Um) THEN Raise(log_Um)
        ELSE IF IsErr(U_m) THEN Raise(U_m)
        ELSE [kind |-> "ok", U_m |-> U_m]

\* The result of calculate_velocity_from_dunes from its three locals.
DunesResult(h, U, H_L_ratio) ==
    IF IsErr(h) THEN Raise(h)
    ELSE IF IsErr(U) THEN Raise(U)
    ELSE IF IsErr(H_L_ratio) THEN Raise(H_L_ratio)
    ELSE [kind |-> "ok", U |-> U, h |-> h, H_L_ratio |-> H_L_ratio]

\* Variant: the depth scaled by the grain size instead of the constant 10.
dunes_depth_by_grain(L, H, D_50, Fr, g) ==
    LET h == Div(L, D_50)
    IN  DunesResult(h, Mul(Fr, Sqrt(Mul(g, h))), Div(H, L))

\* Variant: the steepness inverted, L / H.
dunes_steepness_inverted(L, H, D_50, Fr, g) ==
    LET h == Div(L, FromInt(10))
    IN  DunesResult(h, Mul(Fr, Sqrt(Mul(g, h))), Div(L, H))

\* Variant: the square root taken of |g * h|.
dunes_sqrt_of_abs(L, H, D_50, Fr, g) ==
    LET h == Div(L, FromInt(10))
    IN  DunesResult(h, Mul(Fr, Sqrt(AbsNum(Mul(g, h)))), Div(H, L))

\* Variant: the Froude number under the square root.
dunes_froude_under_root(L, H, D_50, Fr, g) ==
    LET h == Div(L, FromInt(10))
    IN  DunesResult(h, Sqrt(Mul(Fr, Mul(g, h))), Div(H, L))

calculate_velocity_from_dunes(L, H, D_50, Fr, g) ==
    LET h         == Div(L, FromInt(10))
        U         == Mul(Fr, Sqrt(Mul(g, h)))
        H_L_ratio == Div(H, L)
    IN  DunesResult(h, U, H_L_ratio)

\* Variant: g rounded to 10.
DefaultG_10 == FromInt(10)

\* The default g=9.81 of calculate_velocity_from_dunes.
DefaultG == Dec(981, 100)

-----------------------------------------------------------------------------
\* Calls made by a program that imports the module

Neg(x) == Mul(FromInt(-1), x)

RECURSIVE IPow(_, _)
IPow(b, k) == IF k = 0 THEN 1 ELSE b * IPow(b, k - 1)

Vals == {Zero, Neg(FromInt(IPow(10, MaxExp)))}
            \cup {FromInt(IPow(10, j)) : j \in 0..MaxExp}

DunesFn == "calculate_velocity_from_dunes"

ScourFn == "calculate_mean_velocity"

DunesArgs(L, H, D_50, Fr, g) ==
    [L |-> L, H |-> H, D_50 |-> D_50, Fr |-> Fr, g |-> g]

DunesRecord(a) ==
    [fn |-> DunesFn, args |-> a,
     out |-> calculate_velocity_from_dunes(a.L, a.H, a.D_50, a.Fr, a.g)]

ScourRecord(a) ==
    [fn |-> ScourFn, args |-> a,
     out |-> calculate_mean_velocity(a.d_s, a.d_w, a.D_50, a.sigma_g, a.g,
                                     a.h_o, a.w_o, a.nu)]

Init ==
    /\ name \in {"__main__", "paleohydraulics"}
    /\ pc = IF name = "__main__" THEN "s67" ELSE "imported"
    /\ env = <<>>
    /\ stdout = <<>>
    /\ calls = <<>>

CallDunes ==
    /\ pc = "imported"
    /\ calls = <<>>
    /\ \E L \in Vals, H \in Vals, D_50 \in Vals, Fr \in Vals, g \in Vals :
          calls' = <<DunesRecord(DunesArgs(L, H, D_50, Fr, g))>>
    /\ UNCHANGED <<name, pc, env, stdout>>

\* A second call with the same dune: other D_50, Fr and g.
RecallDunes ==
    /\ pc = "imported"
    /\ Len(calls) = 1
    /\ calls[1].fn = DunesFn
    /\ \E D_50 \in Vals, Fr \in Vals, g \in Vals :
          calls' = Append(calls,
                     DunesRecord(DunesArgs(calls[1].args.L, calls[1].args.H,
                                           D_50, Fr, g)))
    /\ UNCHANGED <<name, pc, env, stdout>>

\* A second call with the same arguments but twice the Froude number.
RecallDunesDoubleFr ==
    /\ pc = "imported"
    /\ Len(calls) = 1
    /\ calls[1].fn = DunesFn
    /\ calls' = Append(calls,
                  DunesRecord([calls[1].args EXCEPT
                                 !.Fr = Mul(FromInt(2), calls[1].args.Fr)]))
    /\ UNCHANGED <<name, pc, env, stdout>>

CallScour ==
    /\ pc = "imported"
    /\ calls = <<>>
    /\ \E d_s \in Vals, d_w \in Vals, D_50 \in Vals, sigma_g \in Vals,
          g \in Vals, h_o \in Vals, w_o \in Vals, nu \in Vals :
          calls' = <<ScourRecord([d_s |-> d_s, d_w |-> d_w, D_50 |-> D_50,
                                  sigma_g |-> sigma_g, g |-> g, h_o |-> h_o,
                                  w_o |-> w_o, nu |-> nu])>>
    /\ UNCHANGED <<name, pc, env, stdout>>

-----------------------------------------------------------------------------
\* Formatting: f"{x:.2f}" and f"{x:.3f}"

RECURSIVE SqrtSearch(_, _, _)
SqrtSearch(n, lo, hi) ==
    IF lo = hi THEN lo
    ELSE LET mid == (lo + hi + 1) \div 2
         IN  IF mid * mid <= n THEN SqrtSearch(n, mid, hi)
             ELSE SqrtSearch(n, lo, mid - 1)

\* The floor of the square root of n, 0 <= n < 2^31.
ISqrt(n) == SqrtSearch(n, 0, 46340)

\* The product of the primes whose exponent in v has sign s, each to the
\* absolute value of its (whole) exponent.
RECURSIVE PrimeProduct(_, _, _)
PrimeProduct(v, s, i) ==
    IF i > Len(PrimeSeq) THEN 1
    ELSE LET k == (s * v[PrimeSeq[i]]) \div ExpDen
         IN  (IF k > 0 THEN IPow(PrimeSeq[i], k) ELSE 1)
                * PrimeProduct(v, s, i + 1)

\* The integer n that format(x, ".<nd>f") writes as n / 10^nd: x rounded to nd
\* decimals, ties to even.  With y = (2 * x * 10^nd)^2 = N / D and
\* s = floor(sqrt(y)), 2 * x * 10^nd lies in [s, s + 1).
Fmt(x, nd) ==
    LET v == [p \in Primes |->
                2 * x.e[p] + (IF p = 2 THEN (2 + 2 * nd) * ExpDen
                              ELSE IF p = 5 THEN 2 * nd * ExpDen
                              ELSE 0)]
        N == PrimeProduct(v, 1, 1)
        D == PrimeProduct(v, -1, 1)
        s == ISqrt(N \div D)
        up == (s + 1) \div 2
        tie == s % 2 = 1 /\ s * s * D = N
    IN  x.sgn * (IF tie /\ up % 2 = 1 THEN up - 1 ELSE up)

\* print(f"<label>{arg:.<decimals>f}<suffix>"): one line of standard output.
Line(label, arg, decimals, suffix) ==
    [label |-> label, arg |-> arg, decimals |-> decimals, suffix |-> suffix]

\* The digits of a line of standard output.
Rendered(line) == Fmt(line.arg, line.decimals)

-----------------------------------------------------------------------------
\* The driver: the statements under `if __name__ == "__main__"`

Bind(e, k, v) == [x \in DOMAIN e \cup {k} |-> IF x = k THEN v ELSE e[x]]

\* Lines 67-70.
DuneInputs ==
    /\ pc = "s67"
    /\ env' = Bind(Bind(Bind(Bind(env,
                "L", Div(FromInt(193 + 166 + 205), FromInt(3))),
                "H", Dec(245365 - 239871, 1000)),
                "D_50", Dec(5, 100)),
                "Fr", Dec(6, 10))
    /\ pc' = "s73"
    /\ UNCHANGED <<name, stdout, calls>>

\* Line 73.
DuneCall ==
    /\ pc = "s73"
    /\ LET r == DunesRecord(DunesArgs(env["L"], env["H"], env["D_50"],
                                      env["Fr"], DefaultG))
       IN  /\ calls' = Append(calls, r)
           /\ IF r.out.kind = "ok"
              THEN /\ env' = Bind(Bind(Bind(env, "U_dune", r.out.U),
                                       "h_dune", r.out.h),
                                  "H_L_ratio", r.out.H_L_ratio)
                   /\ pc' = "s76"
              ELSE /\ env' = env
                   /\ pc' = "raised"
    /\ UNCHANGED <<name, stdout>>

\* Line 76.
PrintDepth ==
    /\ pc = "s76"
    /\ stdout' = Append(stdout,
                   Line("Estimated water depth (h) from dunes: ",
                        env["h_dune"], 2, " m"))
    /\ pc' = "s77"
    /\ UNCHANGED <<name, env, calls>>

\* Variant of line 77: three decimals.
PrintVelocity_3dp ==
    /\ pc = "s77"
    /\ stdout' = Append(stdout,
                   Line("Mean flow velocity (U) from dunes: ",
                        env["U_dune"], 3, " m/s"))
    /\ pc' = "s78"
    /\ UNCHANGED <<name, env, calls>>

\* Line 77.
PrintVelocity ==
    /\ pc = "s77"
    /\ stdout' = Append(stdout,
                   Line("Mean flow velocity (U) from dunes: ",
                        env["U_dune"], 2, " m/s"))
    /\ pc' = "s78"
    /\ UNCHANGED <<name, env, calls>>

\* Line 78.
PrintSteepness ==
    /\ pc = "s78"
    /\ stdout' = Append(stdout,
                   Line("Dune steepness (H/L): ", env["H_L_ratio"], 3, ""))
    /\ pc' = "s81"
    /\ UNCHANGED <<name, env, calls>>

\* Variant of lines 81-87: the dune length taken for the water depth.
ScourInputs_LengthAsDepth ==
    /\ pc = "s81"
    /\ env' = Bind(Bind(Bind(Bind(Bind(Bind(Bind(env,
                "d_s", Dec(3339 - 3315, 10)),
                "d_w", env["L"]),
                "sigma_g", Dec(15, 10)),
                "g", Dec(981, 100)),
                "h_o", Dec(3417 - 3335, 10)),
                "w_o", Dec(162, 10)),
                "nu", Dec(1, 1000))
    /\ pc' = "s90"
    /\ UNCHANGED <<name, stdout, calls>>

\* Lines 81-87.
ScourInputs ==
    /\ pc = "s81"
    /\ env' = Bind(Bind(Bind(Bind(Bind(Bind(Bind(env,
                "d_s", Dec(3339 - 3315, 10)),
                "d_w", env["h_dune"]),
                "sigma_g", Dec(15, 10)),
                "g", Dec(981, 100)),
                "h_o", Dec(3417 - 3335, 10)),
                "w_o", Dec(162, 10)),
                "nu", Dec(1, 1000))
    /\ pc' = "s90"
    /\ UNCHANGED <<name, stdout, calls>>

\* Line 90.
ScourCall ==
    /\ pc = "s90"
    /\ LET r == ScourRecord([d_s |-> env["d_s"], d_w |-> env["d_w"],
                             D_50 |-> env["D_50"], sigma_g |-> env["sigma_g"],
                             g |-> env["g"], h_o |-> env["h_o"],
                             w_o |-> env["w_o"], nu |-> env["nu"]])
       IN  /\ calls' = Append(calls, r)
           /\ IF r.out.kind = "ok"
              THEN /\ env' = Bind(env, "U_scour", r.out.U_m)
                   /\ pc' = "s93"
              ELSE /\ env' = env
                   /\ pc' = "raised"
    /\ UNCHANGED <<name, stdout>>

\* Variant of line 93: the scour velocity is not printed.
PrintScour_Silent ==
    /\ pc = "s93"
    /\ pc' = "done"
    /\ UNCHANGED <<name, env, stdout, calls>>

\* Line 93.
PrintScour ==
    /\ pc = "s93"
    /\ stdout' = Append(stdout,
                   Line("The calculated mean flow velocity (U_m) from scour mark: ",
                        env["U_scour"], 2, " m/s"))
    /\ pc' = "done"
    /\ UNCHANGED <<name, env, calls>>

Next ==
    \/ CallDunes \/ RecallDunes \/ RecallDunesDoubleFr \/ CallScour
    \/ DuneInputs \/ DuneCall \/ PrintDepth \/ PrintVelocity \/ PrintSteepness
    \/ ScourInputs \/ ScourCall \/ PrintScour

Spec == Init /\ [][Next]_vars

-----------------------------------------------------------------------------
\* Properties

IsPos(x) == ~IsErr(x) /\ ~x.cx /\ x.sgn = 1

IsNeg(x) == ~IsErr(x) /\ ~x.cx /\ x.sgn = -1

IsZero(x) == ~IsErr(x) /\ x.sgn = 0

\* The exponent of p in 10: log10 of 10 has coordinate 1 at 2 and at 5.
TenAt(p) == IF p \in {2, 5} THEN ExpDen ELSE 0

CallsOf(f) == {i \in DOMAIN calls : calls[i].fn = f}

ScourArgNames == {"d_s", "d_w", "D_50", "sigma_g", "g", "h_o", "w_o", "nu"}

ProductArgNames == {"d_s", "d_w", "D_50", "sigma_g", "g", "nu"}

\* C1: for positive d_s, d_w, D_50, sigma_g, g, h_o, w_o and nu,
\* calculate_mean_velocity returns a positive U_m with
\*   log10(U_m) = 0.46 + 0.326 * (log10(d_s d_w D_50 sigma_g g)
\*                                - (2/3) log10(h_o) - (1/3) log10(w_o) - log10(nu)),
\* stated prime by prime and multiplied by 3000 to clear the fractions.
C1_MeanVelocityFormula ==
    \A i \in CallsOf(ScourFn) :
        LET a == calls[i].args
            o == calls[i].out
        IN  (\A k \in ScourArgNames : IsPos(a[k])) =>
              /\ o.kind = "ok"
              /\ IsPos(o.U_m)
              /\ \A p \in Primes :
                    3000 * o.U_m.e[p] =
                        1380 * TenAt(p)
                        + 978 * (a.d_s.e[p] + a.d_w.e[p] + a.D_50.e[p]
                                 + a.sigma_g.e[p] + a.g.e[p] - a.nu.e[p])
                        - 326 * (2 * a.h_o.e[p] + a.w_o.e[p])

\* C1 witness: a call with positive arguments, an obstacle higher than wide
\* (so that the exponents 2/3 and 1/3 are told apart) and nu /= 1 has returned.
C1_Witness ==
    \E i \in CallsOf(ScourFn) :
        /\ \A k \in ScourArgNames : IsPos(calls[i].args[k])
        /\ calls[i].args.h_o.e[2] > calls[i].args.w_o.e[2]
        /\ calls[i].args.nu.e[2] > 0
        /\ calls[i].out.kind = "ok"

\* C2: for L > 0, Fr > 0 and g > 0, calculate_velocity_from_dunes returns
\* h = L / 10 and the positive U with U^2 = Fr^2 * g * L / 10 (prime by prime:
\* 2 log U = 2 log Fr + log g + log L - log 10), and two calls that differ
\* only in D_50 return the same result.
C2_DuneDepthAndVelocity ==
    /\ \A i \in CallsOf(DunesFn) :
          LET a == calls[i].args
              o == calls[i].out
          IN  (IsPos(a.L) /\ IsPos(a.Fr) /\ IsPos(a.g)) =>
                /\ o.kind = "ok"
                /\ IsPos(o.h)
                /\ \A p \in Primes : o.h.e[p] = a.L.e[p] - TenAt(p)
                /\ IsPos(o.U)
                /\ \A p \in Primes :
                      2 * o.U.e[p] =
                          2 * a.Fr.e[p] + a.g.e[p] + a.L.e[p] - TenAt(p)
    /\ \A i, j \in CallsOf(DunesFn) :
          [calls[i].args EXCEPT !.D_50 = Zero]
             = [calls[j].args EXCEPT !.D_50 = Zero]
          => calls[i].out = calls[j].out

\* C2 witness: two calls with positive L, Fr, g that differ in D_50 only.
C2_Witness ==
    \E i, j \in CallsOf(DunesFn) :
        /\ IsPos(calls[i].args.L) /\ IsPos(calls[i].args.Fr)
        /\ IsPos(calls[i].args.g)
        /\ calls[i].args.L.e[2] > 0
        /\ calls[i].args.D_50 /= calls[j].args.D_50
        /\ [calls[i].args EXCEPT !.D_50 = Zero]
              = [calls[j].args EXCEPT !.D_50 = Zero]
        /\ calls[j].out.kind = "ok"

\* C3: for L > 0, the third component a call of calculate_velocity_from_dunes
\* returns is H / L (zero for H = 0, else of the sign of H with
\* log ratio = log H - log L), and two returning calls with the same L and H
\* return the same ratio whatever their Fr, g and D_50.
C3_Steepness ==
    /\ \A i \in CallsOf(DunesFn) :
          LET a == calls[i].args
              o == calls[i].out
          IN  (IsPos(a.L) /\ o.kind = "ok") =>
                /\ ~o.H_L_ratio.cx
                /\ o.H_L_ratio.sgn = a.H.sgn
                /\ \A p \in Primes :
                      o.H_L_ratio.e[p] =
                          IF a.H.sgn = 0 THEN 0 ELSE a.H.e[p] - a.L.e[p]
    /\ \A i, j \in CallsOf(DunesFn) :
          (/\ IsPos(calls[i].args.L)
           /\ calls[i].args.L = calls[j].args.L
           /\ calls[i].args.H = calls[j].args.H
           /\ calls[i].out.kind = "ok"
           /\ calls[j].out.kind = "ok")
          => calls[i].out.H_L_ratio = calls[j].out.H_L_ratio

\* C3 witness: two returning calls with the same L > 1 and H /= 0 whose Fr, g
\* and D_50 all differ.
C3_Witness ==
    \E i, j \in CallsOf(DunesFn) :
        /\ IsPos(calls[i].args.L)
        /\ calls[i].args.L.e[2] > 0
        /\ ~IsZero(calls[i].args.H)
        /\ calls[i].args.Fr /= calls[j].args.Fr
        /\ calls[i].args.g /= calls[j].args.g
        /\ calls[i].args.D_50 /= calls[j].args.D_50
        /\ calls[i].out.kind = "ok"
        /\ calls[j].out.kind = "ok"

\* The number of negative values among d_s, d_w, D_50, sigma_g, g and nu.
Negatives(a) == Cardinality({k \in ProductArgNames : IsNeg(a[k])})

\* C4 as stated: any zero or negative input of calculate_mean_velocity makes
\* the call raise.
C4_AnyNonPositiveInputRaises ==
    \A i \in CallsOf(ScourFn) :
        (\E k \in ScourArgNames : ~IsPos(calls[i].args[k]))
            => calls[i].out.kind /= "ok"

\* C4 amended: calculate_mean_velocity raises exactly when an input is zero,
\* h_o or w_o is negative, or an odd number of d_s, d_w, D_50, sigma_g, g, nu
\* are negative: ZeroDivisionError when h_o, w_o or nu is zero, else TypeError
\* when h_o or w_o is negative, else ValueError.  With an even number of
\* negative values among those six and everything else positive the signs
\* cancel and the call returns a positive velocity.
C4_RaisesIffLogArgumentNotPositive ==
    \A i \in CallsOf(ScourFn) :
        LET a == calls[i].args
            o == calls[i].out
        IN  o.kind =
              IF IsZero(a.h_o) \/ IsZero(a.w_o) \/ IsZero(a.nu)
                THEN "ZeroDivisionError"
              ELSE IF IsNeg(a.h_o) \/ IsNeg(a.w_o)
                THEN "TypeError"
              ELSE IF (\E k \in ProductArgNames : IsZero(a[k]))
                      \/ Negatives(a) % 2 = 1
                THEN "ValueError"
              ELSE "ok"

\* C4 witness: a call with exactly two negative inputs has returned a velocity.
C4_Witness ==
    \E i \in CallsOf(ScourFn) :
        /\ Negatives(calls[i].args) = 2
        /\ calls[i].out.kind = "ok"
        /\ IsPos(calls[i].out.U_m)

\* C5: with g > 0, a call of calculate_velocity_from_dunes with L < 0 ends in
\* the ValueError of math.sqrt and one with L = 0 in a ZeroDivisionError,
\* whatever H, Fr and D_50 are; neither returns a tuple.
C5_NonPositiveLengthFaults ==
    \A i \in CallsOf(DunesFn) :
        LET a == calls[i].args
            o == calls[i].out
        IN  IsPos(a.g) =>
              /\ IsNeg(a.L) => o.kind = "ValueError"
              /\ IsZero(a.L) => o.kind = "ZeroDivisionError"

\* C5 witness: two calls with L = 0, g > 0 and different Froude numbers have
\* both ended in ZeroDivisionError.
C5_Witness ==
    /\ Len(calls) = 2
    /\ \A i \in DOMAIN calls :
          /\ calls[i].fn = DunesFn
          /\ IsZero(calls[i].args.L)
          /\ IsPos(calls[i].args.g)
          /\ calls[i].out.kind = "ZeroDivisionError"
    /\ calls[1].args.Fr /= calls[2].args.Fr

\* C6: for L > 0 and g > 0, the call with Froude number 2 * Fr and otherwise
\* the same arguments returns twice the U (same sign, log U larger by log 2)
\* and the same h and H_L_ratio.
C6_DoublingFr ==
    (/\ Len(calls) = 2
     /\ calls[1].fn = DunesFn
     /\ calls[2].fn = DunesFn
     /\ IsPos(calls[1].args.L)
     /\ IsPos(calls[1].args.g)
     /\ calls[2].args = [calls[1].args EXCEPT
                           !.Fr = Mul(FromInt(2), calls[1].args.Fr)])
    => LET o1 == calls[1].out
           o2 == calls[2].out
       IN  /\ o1.kind = "ok"
           /\ o2.kind = "ok"
           /\ o2.U.sgn = o1.U.sgn
           /\ \A p \in Primes :
                 o2.U.e[p] = o1.U.e[p]
                     + (IF p = 2 /\ o1.U.sgn /= 0 THEN ExpDen ELSE 0)
           /\ o2.h = o1.h
           /\ o2.H_L_ratio = o1.H_L_ratio

\* C6 witness: the pair of calls with Fr > 0 doubled, L > 1 and g > 1.
C6_Witness ==
    /\ Len(calls) = 2
    /\ calls[1].fn = DunesFn
    /\ IsPos(calls[1].args.L) /\ calls[1].args.L.e[2] > 0
    /\ IsPos(calls[1].args.g) /\ calls[1].args.g.e[2] > 0
    /\ IsPos(calls[1].args.Fr)
    /\ calls[2].args = [calls[1].args EXCEPT
                          !.Fr = Mul(FromInt(2), calls[1].args.Fr)]
    /\ calls[2].out.kind = "ok"

Script == name = "__main__"

DuneResultsKnown == Script /\ pc \in {"s76", "s77", "s78", "s81", "s90", "s93", "done"}

\* C7 as stated: with the driver's literals the results are h = 18.80,
\* U = 8.14 and H_L_ratio = 0.029 at two, two and three decimals.
C7_ScenarioAsStated ==
    DuneResultsKnown =>
        /\ Fmt(env["h_dune"], 2) = 1880
        /\ Fmt(env["U_dune"], 2) = 814
        /\ Fmt(env["H_L_ratio"], 3) = 29

\* C7 amended: the driver's literals are L = 188, H = 5.494, D_50 = 0.05 and
\* Fr = 0.6, and they give h = 18.80, U = 8.15 (8.148 at three decimals) and
\* H_L_ratio = 0.029.
C7_Scenario ==
    DuneResultsKnown =>
        /\ env["L"] = FromInt(188)
        /\ env["H"] = Dec(5494, 1000)
        /\ env["D_50"] = Dec(5, 100)
        /\ env["Fr"] = Dec(6, 10)
        /\ Fmt(env["h_dune"], 2) = 1880
        /\ Fmt(env["U_dune"], 2) = 815
        /\ Fmt(env["U_dune"], 3) = 8148
        /\ Fmt(env["H_L_ratio"], 3) = 29

\* C7 witness: the driver has printed the three dune results.
C7_Witness ==
    /\ Script
    /\ Len(stdout) = 3
    /\ Rendered(stdout[2]) = 815

\* C8 as stated: a complete run writes exactly three lines, each with one
\* numeric value and a unit suffix.
C8_ThreeLinesAsStated ==
    (Script /\ pc = "done") =>
        /\ Len(stdout) = 3
        /\ \A i \in DOMAIN stdout : stdout[i].suffix /= ""

\* C8 amended: a complete run writes exactly four lines, the three dune lines
\* and the scour line, each a sentence with one numeric value; the depth line
\* ends in " m", the two velocity lines in " m/s", and the steepness line has
\* no unit suffix.  Nothing else is written: at every point of the run the
\* output is a prefix of these four lines.
C8_FourLines ==
    Script =>
        /\ Len(stdout) <= 4
        /\ pc = "done" => Len(stdout) = 4
        /\ \A i \in DOMAIN stdout :
              /\ stdout[i].label =
                    <<"Estimated water depth (h) from dunes: ",
                      "Mean flow velocity (U) from dunes: ",
                      "Dune steepness (H/L): ",
                      "The calculated mean flow velocity (U_m) from scour mark: ">>[i]
              /\ stdout[i].suffix = <<" m", " m/s", "", " m/s">>[i]
              /\ IsPos(stdout[i].arg)

\* C8 witness: the run is complete and the fourth line holds the scour velocity.
C8_Witness ==
    /\ Script
    /\ pc = "done"
    /\ Len(stdout) = 4
    /\ stdout[4].arg = env["U_scour"]

\* C9 as stated: each of the three dune results is printed to three decimals.
C9_ThreeDecimalsAsStated ==
    Script => \A i \in DOMAIN stdout : i <= 3 => stdout[i].decimals = 3

\* C9 amended: the driver prints the water depth h and the velocity U rounded
\* to two decimals and the steepness H/L rounded to three.
C9_Decimals ==
    Script =>
        \A i \in DOMAIN stdout :
            i <= 3 =>
              /\ stdout[i].arg
                    = <<env["h_dune"], env["U_dune"], env["H_L_ratio"]>>[i]
              /\ stdout[i].decimals = <<2, 2, 3>>[i]
              /\ Rendered(stdout[i]) = <<1880, 815, 29>>[i]

\* C9 witness: the three dune lines are out and the scour line is not.
C9_Witness ==
    /\ Script
    /\ pc = "s81"
    /\ Len(stdout) = 3
    /\ stdout[3].decimals = 3

\* C10: in a run of the driver calculate_velocity_from_dunes is called first
\* and once, calculate_mean_velocity after it and once; the d_w of the second
\* call is the h the first returned, both get the same D_50 = 0.05, and the
\* three dune lines are on the output before the second call is made.
C10_CallOrder ==
    Script =>
        /\ Len(calls) <= 2
        /\ Len(calls) >= 1 => calls[1].fn = DunesFn
        /\ Len(calls) = 2 =>
              /\ calls[2].fn = ScourFn
              /\ calls[1].out.kind = "ok"
              /\ calls[2].args.d_w = calls[1].out.h
              /\ calls[2].args.D_50 = calls[1].args.D_50
              /\ calls[1].args.D_50 = Dec(5, 100)
              /\ Len(stdout) >= 3
        /\ Len(stdout) >= 1 => Len(calls) >= 1
        /\ Len(stdout) = 4 => Len(calls) = 2
        /\ pc \in {"s93", "done"} => Len(calls) = 2
        /\ pc \in {"s76", "s77", "s78", "s81", "s90"} => Len(calls) = 1
        /\ pc \in {"s67", "s73"} => Len(calls) = 0

\* C10 witness: the run is complete, after both calls.
C10_Witness ==
    /\ Script
    /\ pc = "done"
    /\ Len(calls) = 2
    /\ calls[2].args.d_w = Dec(188, 10)

====
